---- MODULE Spec2Model ----
(***************************************************************************)
(* A model of icon-sys: the Windows icon-size catalog and icon-set model   *)
(* (src/icon/sys/windows.rs), the folder settings provider that sets and   *)
(* resets a folder's icon (folder_settings_provider.rs) and the extractor  *)
(* of the default folder icon (default_folder_icon_provider.rs).           *)
(*                                                                         *)
(* The filesystem, the shell's per-folder metadata and the Win32 resource  *)
(* and GDI calls are the environment.  Every platform call that can fail   *)
(* in the source can fail here: a call of a handler is given the name of   *)
(* the platform call that fails during it ("none" when all succeed).       *)
(***************************************************************************)
EXTENDS Integers, Sequences, FiniteSets, TLC

VARIABLES
    mgr,        \* the WindowsFolderSettingsProvider: its two fields
    uuids,      \* number of Uuid::new_v4() values drawn so far
    target,     \* the path the calls of this behaviour are given
    fs,         \* the folders: files of each directory and its shell icon pointer
    last,       \* the last call of the provider: operation, inputs, result, platform calls
    clean0,     \* the target held no file matching <prefix>-*.ico before the first call
    all_ok,     \* every call so far returned Ok (and every SetIcon was given a complete set)
    ext,        \* the last call of the default-folder-icon extractor
    calc,       \* the icon set in hand and the last operation of the icon model on it
    running     \* the position of each of two concurrent SetIcon calls on the target

vars == <<mgr, target, fs, uuids, last, clean0, all_ok, ext, calc, running>>

-----------------------------------------------------------------------------
(* Bounds of the model *)

\* Uuid::new_v4() values drawn per behaviour
MaxUuids == 2
\* files a directory holds before the first call
MaxInitFiles == 2
\* entries of an icon-group directory enumerated freely
MaxEntries == 2
\* images of a sequence given to from_icons or of an api::IconSet, enumerated freely
MaxIcons == 3
\* the largest integer given to from_dimension
MaxDimension == 260
\* the pixels of a queried bitmap
MaxPixels == 2

-----------------------------------------------------------------------------
(* src/icon/sys/windows.rs: WindowsIconSize *)

NoSize == "None"

NUM_SIZES == 8

\* WindowsIconSize::all(): the eight tags in ascending order
all == <<"Px16", "Px20", "Px24", "Px32", "Px40", "Px48", "Px64", "Px256">>

WindowsIconSize == {all[i] : i \in 1..NUM_SIZES}

dimension(s) ==
    CASE s = "Px16" -> 16
      [] s = "Px20" -> 20
      [] s = "Px24" -> 24
      [] s = "Px32" -> 32
      [] s = "Px40" -> 40
      [] s = "Px48" -> 48
      [] s = "Px64" -> 64
      [] s = "Px256" -> 256

\* a from_dimension whose match lacks the arm of one size
from_dimension_no_px40(d) ==
    CASE d = 16 -> "Px16" [] d = 20 -> "Px20" [] d = 24 -> "Px24" [] d = 32 -> "Px32"
      [] d = 48 -> "Px48" [] d = 64 -> "Px64" [] d = 256 -> "Px256" [] OTHER -> "None"

\* a from_dimension that takes a width it does not know for the largest size
from_dimension_lenient(d) ==
    CASE d = 16 -> "Px16" [] d = 20 -> "Px20" [] d = 24 -> "Px24" [] d = 32 -> "Px32"
      [] d = 40 -> "Px40" [] d = 48 -> "Px48" [] d = 64 -> "Px64" [] OTHER -> "Px256"

\* WindowsIconSize::from_dimension
from_dimension(d) ==
    CASE d = 16 -> "Px16"
      [] d = 20 -> "Px20"
      [] d = 24 -> "Px24"
      [] d = 32 -> "Px32"
      [] d = 40 -> "Px40"
      [] d = 48 -> "Px48"
      [] d = 64 -> "Px64"
      [] d = 256 -> "Px256"
      [] OTHER -> NoSize

-----------------------------------------------------------------------------
(* Errors: the variant, the path it carries (<<>> when it carries none,     *)
(* <<folder>> for a folder, <<folder, name>> for a file in it), the message *)

NoErr == [variant |-> "Ok", path |-> <<>>, msg |-> ""]

IconOperation(path, msg) == [variant |-> "IconOperation", path |-> path, msg |-> msg]
ErrorString(msg) == [variant |-> "Error", path |-> <<>>, msg |-> msg]
Win32(msg) == [variant |-> "Win32", path |-> <<>>, msg |-> msg]
ProviderError(msg) == [variant |-> "ProviderError", path |-> <<>>, msg |-> msg]
IconErrorIconSet(msg) == [variant |-> "IconError::IconSet", path |-> <<>>, msg |-> msg]
IconErrorIconImage(msg) == [variant |-> "IconError::IconImage", path |-> <<>>, msg |-> msg]

-----------------------------------------------------------------------------
(* src/icon/sys/windows.rs: WindowsIconImage, WindowsIconSet               *)
(* An image is its pixel width and height; a WindowsIconImage is a size    *)
(* tag and an image; a WindowsIconSet is its BTreeMap, a function from the *)
(* tags present to WindowsIconImages.                                      *)

Image(w, h) == [width |-> w, height |-> h]

WindowsIconImage(size, image) == [size |-> size, image |-> image]

\* TryFrom<&api::IconImage> for WindowsIconImage: the tag comes from the width alone
icon_image_try_from(icon_image) ==
    LET size == from_dimension(icon_image.width) IN
    IF size = NoSize
    THEN [ok |-> FALSE, err |-> IconErrorIconImage("Invalid size"), icon |-> WindowsIconImage(NoSize, icon_image)]
    ELSE [ok |-> TRUE, err |-> NoErr, icon |-> WindowsIconImage(size, icon_image)]

EmptyImages == [s \in {} |-> WindowsIconImage(NoSize, Image(0, 0))]

insert(images, icon) ==
    [s \in DOMAIN images \cup {icon.size} |-> IF s = icon.size THEN icon ELSE images[s]]

RECURSIVE from_icons_loop(_, _)
from_icons_loop(icons, images) ==
    IF icons = <<>>
    THEN [ok |-> TRUE, err |-> NoErr, images |-> images]
    ELSE LET icon == Head(icons) IN
         IF icon.size \in DOMAIN images
         THEN [ok |-> FALSE, err |-> IconErrorIconSet("Duplicate icon size"), images |-> EmptyImages]
         ELSE from_icons_loop(Tail(icons), insert(images, icon))

\* a from_icons that inserts without looking for the key: the last image of a
\* size wins
from_icons_overwrite(icons) ==
    [ok |-> TRUE, err |-> NoErr,
     images |-> [s \in {icons[i].size : i \in DOMAIN icons} |->
                   icons[CHOOSE i \in DOMAIN icons :
                           icons[i].size = s /\ \A j \in DOMAIN icons : j > i => icons[j].size # s]]]

\* WindowsIconSet::from_icons
from_icons(icons) == from_icons_loop(icons, EmptyImages)

\* WindowsIconSet::add_image
add_image(images, icon) == insert(images, icon)

\* a missing_sizes whose filter lacks the negation
missing_sizes_present(images) == SelectSeq(all, LAMBDA s : s \in DOMAIN images)

\* WindowsIconSet::missing_sizes
missing_sizes(images) == SelectSeq(all, LAMBDA s : s \notin DOMAIN images)

\* WindowsIconSet::is_complete
is_complete(images) == missing_sizes(images) = <<>>

\* an iter in descending order of tag
iter_descending(images) ==
    LET present == SelectSeq(all, LAMBDA s : s \in DOMAIN images) IN
    [i \in 1..Len(present) |-> images[present[Len(present) + 1 - i]]]

\* WindowsIconSet::iter: the BTreeMap's order, ascending by tag
iter(images) ==
    LET present == SelectSeq(all, LAMBDA s : s \in DOMAIN images) IN
    [i \in 1..Len(present) |-> images[present[i]]]

RECURSIVE try_from_images(_)
try_from_images(api_images) ==
    IF api_images = <<>>
    THEN [ok |-> TRUE, err |-> NoErr, icons |-> <<>>]
    ELSE LET r == icon_image_try_from(Head(api_images)) IN
         IF ~r.ok
         THEN [ok |-> FALSE, err |-> r.err, icons |-> <<>>]
         ELSE LET rest == try_from_images(Tail(api_images)) IN
              IF ~rest.ok THEN rest
              ELSE [ok |-> TRUE, err |-> NoErr, icons |-> <<r.icon>> \o rest.icons]

\* TryFrom<&api::IconSet> for WindowsIconSet
icon_set_try_from(icon_set) ==
    LET icons == try_from_images(icon_set) IN
    IF ~icons.ok
    THEN [ok |-> FALSE, err |-> icons.err, images |-> EmptyImages]
    ELSE LET windows_icon_set == from_icons(icons.icons) IN
         IF ~windows_icon_set.ok
         THEN windows_icon_set
         ELSE IF is_complete(windows_icon_set.images)
              THEN windows_icon_set
              ELSE [ok |-> FALSE, err |-> IconErrorIconSet("Missing sizes"), images |-> EmptyImages]

-----------------------------------------------------------------------------
(* The icon sets the calls of the model are given *)

SquareIcon(s) == WindowsIconImage(s, Image(dimension(s), dimension(s)))

\* the eight canonical images, as test_set_folder_icon builds them
CanonicalIcons == [i \in 1..NUM_SIZES |-> SquareIcon(all[i])]

RemoveAt(seq, i) == SubSeq(seq, 1, i - 1) \o SubSeq(seq, i + 1, Len(seq))

ReplaceAt(seq, i, x) == [seq EXCEPT ![i] = x]

\* sequences of images given to from_icons: all eight, and seven of them
IconSequences == {CanonicalIcons, RemoveAt(CanonicalIcons, 1)}

\* the WindowsIconSets given to set_icon_for_folder_windows
WindowsIconSets == {from_icons(icons).images : icons \in IconSequences}

CanonicalImages == [i \in 1..NUM_SIZES |-> CanonicalIcons[i].image]

\* the api::IconSets given to set_icon_for_folder: the canonical one, one with an
\* image missing, one with an image of no canonical width, one with a
\* non-square image
ApiIconSets ==
    {CanonicalImages, RemoveAt(CanonicalImages, NUM_SIZES),
     ReplaceAt(CanonicalImages, 2, Image(30, 30)),
     ReplaceAt(CanonicalImages, 1, Image(16, 32))}

\* icon_set_try_from over the api::IconSets of the model: TLC evaluates the
\* table once instead of converting at every call
TryFromTable == [icon_set \in ApiIconSets |-> icon_set_try_from(icon_set)]

\* the WindowsIconSets that reach the encoder in the model
EncodedIconSets ==
    WindowsIconSets \cup {TryFromTable[a].images : a \in {b \in ApiIconSets : TryFromTable[b].ok}}

-----------------------------------------------------------------------------
(* The filesystem and the shell metadata                                    *)
(* A file name is its stem, a sequence of fragments of characters, and its  *)
(* extension; the name as a string is the fragments, a dot, the extension.  *)

Name(stem, e) == [stem |-> stem, ext |-> e]

\* no file: a None of find_existing_ico, a null pszIconFile
NoName == Name(<<>>, "")

\* Path::file_name as a string
file_name(n) == n.stem \o <<".", n.ext>>

\* Path::extension
extension(n) == n.ext

\* str::starts_with
starts_with(s, p) == Len(s) >= Len(p) /\ SubSeq(s, 1, Len(p)) = p

Paths == {"dir", "known", "file", "missing"}

\* the paths that are directories; "known" is a registered known folder
Dirs == {"dir", "known"}

KnownFolders == {"known"}

\* Path::exists
exists(p) == p \in Dirs \cup {"file"}

\* Path::is_dir
is_dir(p) == p \in Dirs

\* what the model keeps of a file: its hidden and system attributes
Content(attrs) == [attrs |-> attrs]

\* a file this program did not write in this behaviour
OtherContent == Content({})

\* the platform calls of the provider that can fail
Faults ==
    {"none", "FindFolderFromPath", "read_dir", "remove_file", "IcoFrame::as_png",
     "File::create", "encode_images", "GetFileAttributesW", "SetFileAttributesW",
     "SHGetSetFolderCustomSettings"}

\* the calls that change the filesystem or the shell metadata
MutatingCalls ==
    {"remove_file", "File::create", "encode_images", "SetFileAttributesW",
     "SHGetSetFolderCustomSettings"}

\* the result of a step: Ok or an error, the folders after it, the platform calls made
Ret(ok, err, w, calls) == [ok |-> ok, err |-> err, w |-> w, calls |-> calls]

\* the result q of a step made after the steps of p
After(p, q) == Ret(q.ok, q.err, q.w, p.calls \o q.calls)

\* map_err(|e| IconOperation(path, e.to_string()))
map_err_icon_operation(path, r) ==
    IF r.ok THEN Ret(TRUE, NoErr, r.w, r.calls)
    ELSE Ret(FALSE, IconOperation(path, r.err), r.w, r.calls)

-----------------------------------------------------------------------------
(* src/folder_settings/sys/windows/folder_settings_provider.rs             *)

DEFAULT_GENERATED_ICON_PREFIX == <<"icon-sys">>

\* a generated_icon_prefix given to new_windows
CustomPrefix == <<"my">>

\* WindowsFolderSettingsProviderExt::new_windows; prefix is <<>> for None
new_windows(block_known_folders, generated_icon_prefix) ==
    [com_known_folder_manager |-> block_known_folders,
     generated_icon_prefix |->
        IF generated_icon_prefix # <<>> THEN generated_icon_prefix[1]
        ELSE DEFAULT_GENERATED_ICON_PREFIX]

\* FolderSettingsProvider::new
new == new_windows(TRUE, <<>>)

\* IKnownFolderManager::FindFolderFromPath with FFFP_EXACTMATCH: Ok for a known
\* folder, an error for any other path and whenever the call itself fails
FindFolderFromPath(directory, env) ==
    directory \in KnownFolders /\ env.fault # "FindFolderFromPath"

\* validate_folder without its is_dir check
validate_folder_no_dir_check(self, w, directory, env) ==
    IF ~exists(directory)
    THEN Ret(FALSE, IconOperation(<<directory>>, "Directory does not exist on filesystem"),
             w, <<"exists">>)
    ELSE IF self.com_known_folder_manager
    THEN IF ~(~FindFolderFromPath(directory, env))
         THEN Ret(FALSE, IconOperation(<<directory>>, "Folder is a known folder"),
                  w, <<"exists", "FindFolderFromPath">>)
         ELSE Ret(TRUE, NoErr, w, <<"exists", "FindFolderFromPath">>)
    ELSE Ret(TRUE, NoErr, w, <<"exists">>)

\* validate_folder
validate_folder(self, w, directory, env) ==
    IF ~exists(directory)
    THEN Ret(FALSE, IconOperation(<<directory>>, "Directory does not exist on filesystem"),
             w, <<"exists">>)
    ELSE IF ~is_dir(directory)
    THEN Ret(FALSE, IconOperation(<<directory>>, "Path is not a directory"),
             w, <<"exists", "is_dir">>)
    ELSE IF self.com_known_folder_manager
    THEN IF ~(~FindFolderFromPath(directory, env))
         THEN Ret(FALSE, IconOperation(<<directory>>, "Folder is a known folder"),
                  w, <<"exists", "is_dir", "FindFolderFromPath">>)
         ELSE Ret(TRUE, NoErr, w, <<"exists", "is_dir", "FindFolderFromPath">>)
    ELSE Ret(TRUE, NoErr, w, <<"exists", "is_dir">>)

\* the files of a directory that find_existing_ico takes for generated ones
existing_ico_matches(self, w, directory) ==
    {n \in DOMAIN w.files[directory] :
        /\ extension(n) = "ico"
        /\ starts_with(file_name(n), self.generated_icon_prefix)}

\* find_existing_ico: the first match in read_dir's order, which the platform
\* chooses (env.first); found is NoName for Ok(None)
find_existing_ico(self, w, directory, env) ==
    IF ~is_dir(directory) \/ env.fault = "read_dir"
    THEN [ok |-> FALSE, err |-> "read_dir failed", found |-> NoName, calls |-> <<"read_dir">>]
    ELSE LET matches == existing_ico_matches(self, w, directory) IN
         [ok |-> TRUE, err |-> "",
          found |-> IF matches = {} THEN NoName
                    ELSE IF env.first \in matches THEN env.first
                    ELSE CHOOSE n \in matches : TRUE,
          calls |-> <<"read_dir">>]

\* std::fs::remove_file of a file of a directory
remove_file(w, directory, n) ==
    [w EXCEPT !.files[directory] =
        [m \in DOMAIN w.files[directory] \ {n} |-> w.files[directory][m]]]

\* remove_existing_generated_ico after find_existing_ico returned
remove_if_some(w, directory, existing_ico_file, env) ==
    IF ~existing_ico_file.ok
    THEN Ret(FALSE, existing_ico_file.err, w, existing_ico_file.calls)
    ELSE IF existing_ico_file.found # NoName
    THEN IF env.fault = "remove_file"
         THEN Ret(FALSE, "remove_file failed", w, existing_ico_file.calls \o <<"remove_file">>)
         ELSE Ret(TRUE, "", remove_file(w, directory, existing_ico_file.found),
                  existing_ico_file.calls \o <<"remove_file">>)
    ELSE Ret(TRUE, "", w, existing_ico_file.calls)

\* remove_existing_generated_ico; its error is the io::Error's text
remove_existing_generated_ico(self, w, directory, env) ==
    remove_if_some(w, directory, find_existing_ico(self, w, directory, env), env)

\* generate_unique_ico_file_name: format!("{}-{}.ico", prefix, Uuid::new_v4())
generate_unique_ico_file_name(self, uuid) ==
    Name(self.generated_icon_prefix \o <<"-", uuid>>, "ico")

\* IcoFrame::as_png of a 32-bit RGBA buffer declared dim x dim: refused when the
\* buffer does not hold dim * dim pixels
as_png(image, dim) == image.width * image.height * 4 = dim * dim * 4

\* the try_fold of to_ico_frames: one frame per image, in the set's order
ico_frames_fold(windows_icon_set) ==
    LET icons == iter(windows_icon_set) IN
    IF \E i \in 1..Len(icons) : ~as_png(icons[i].image, dimension(icons[i].size))
    THEN [ok |-> FALSE, frames |-> <<>>]
    ELSE [ok |-> TRUE,
          frames |-> [i \in 1..Len(icons) |->
                        Image(dimension(icons[i].size), dimension(icons[i].size))]]

\* ico_frames_fold over the icon sets of the model, evaluated once
IcoFramesTable == [icon_set \in EncodedIconSets |-> ico_frames_fold(icon_set)]

\* to_ico_frames, given the result of its try_fold; the platform may also fail
\* the first as_png call
to_ico_frames_of(fold, windows_icon_set, env) ==
    IF DOMAIN windows_icon_set = {}
    THEN [ok |-> TRUE, frames |-> <<>>, calls |-> <<>>]
    ELSE IF env.fault = "IcoFrame::as_png"
    THEN [ok |-> FALSE, frames |-> <<>>, calls |-> <<"IcoFrame::as_png">>]
    ELSE [ok |-> fold.ok, frames |-> fold.frames, calls |-> <<"IcoFrame::as_png">>]

\* to_ico_frames
to_ico_frames(windows_icon_set, env) ==
    to_ico_frames_of(IcoFramesTable[windows_icon_set], windows_icon_set, env)

\* File::create, or a later write, of a file of a directory
write_file(w, directory, n, content) ==
    [w EXCEPT !.files[directory] =
        [m \in DOMAIN w.files[directory] \cup {n} |->
            IF m = n THEN content ELSE w.files[directory][m]]]

\* encode_and_write_ico
encode_and_write_ico(w, ico_frames, directory, n, env) ==
    IF ~is_dir(directory) \/ env.fault = "File::create"
    THEN Ret(FALSE, ErrorString("File::create failed"), w, <<"File::create">>)
    ELSE LET created == write_file(w, directory, n, Content({})) IN
         IF env.fault = "encode_images"
         THEN Ret(FALSE, ErrorString("encode_images failed"), created,
                  <<"File::create", "encode_images">>)
         ELSE Ret(TRUE, NoErr, write_file(w, directory, n, Content({})),
                  <<"File::create", "encode_images">>)

\* encode_to_system: to_ico_frames(icon_set).map_err(..)?
ico_frames_or_err(w, ico_frames, directory, n) ==
    IF ~ico_frames.ok
    THEN Ret(FALSE, IconOperation(<<directory, n>>, "as_png failed"), w, ico_frames.calls)
    ELSE Ret(TRUE, NoErr, w, ico_frames.calls)

\* encode_to_system: the hidden and system attributes of the written file
set_hidden_system(w, directory, n, env) ==
    IF env.fault = "GetFileAttributesW"
    THEN Ret(FALSE,
             IconOperation(<<directory, n>>, "Failed to get file attributes for generated icon"),
             w, <<"GetFileAttributesW">>)
    ELSE IF env.fault = "SetFileAttributesW"
    THEN Ret(FALSE,
             IconOperation(<<directory, n>>, "Failed to set file attributes for generated icon"),
             w, <<"GetFileAttributesW", "SetFileAttributesW">>)
    ELSE Ret(TRUE, NoErr,
             write_file(w, directory, n, Content({"HIDDEN", "SYSTEM"})),
             <<"GetFileAttributesW", "SetFileAttributesW">>)

\* encode_to_system: encode_and_write_ico(ico_frames, &ico_path)?, made when p is Ok
then_encode_and_write_ico(p, icon_set, directory, n, env) ==
    IF ~p.ok THEN p
    ELSE After(p, encode_and_write_ico(p.w, to_ico_frames(icon_set, env).frames,
                                       directory, n, env))

\* encode_to_system: the attribute calls, made when p is Ok
then_set_hidden_system(p, directory, n, env) ==
    IF ~p.ok THEN p ELSE After(p, set_hidden_system(p.w, directory, n, env))

\* encode_to_system
encode_to_system(w, icon_set, directory, n, env) ==
    then_set_hidden_system(
        then_encode_and_write_ico(
            ico_frames_or_err(w, to_ico_frames(icon_set, env), directory, n),
            icon_set, directory, n, env),
        directory, n, env)

\* a set_folder_icon_settings that returns Ok without writing the pointer
set_folder_icon_settings_no_write(w, directory, icon_path, env) ==
    Ret(TRUE, NoErr, w, <<"SHGetSetFolderCustomSettings">>)

\* set_folder_icon_settings: the shell's icon-file pointer of the directory
set_folder_icon_settings(w, directory, icon_path, env) ==
    IF ~is_dir(directory) \/ env.fault = "SHGetSetFolderCustomSettings"
    THEN Ret(FALSE, IconOperation(<<directory>>, "Failed to set folder custom settings"),
             w, <<"SHGetSetFolderCustomSettings">>)
    ELSE Ret(TRUE, NoErr, [w EXCEPT !.icon_file[directory] = icon_path],
             <<"SHGetSetFolderCustomSettings">>)

\* clear_folder_icon_settings: a null pszIconFile
clear_folder_icon_settings(w, directory, env) ==
    IF ~is_dir(directory) \/ env.fault = "SHGetSetFolderCustomSettings"
    THEN Ret(FALSE, IconOperation(<<directory>>, "Failed to set folder custom settings"),
             w, <<"SHGetSetFolderCustomSettings">>)
    ELSE Ret(TRUE, NoErr, [w EXCEPT !.icon_file[directory] = NoName],
             <<"SHGetSetFolderCustomSettings">>)

\* self.remove_existing_generated_ico(&path).map_err(..)?, made when p is Ok
then_remove_existing_generated_ico(p, self, path, env) ==
    IF ~p.ok THEN p
    ELSE After(p, map_err_icon_operation(<<path>>,
                      remove_existing_generated_ico(self, p.w, path, env)))

\* the call of Uuid::new_v4 made before a step
with_new_v4(r) == Ret(r.ok, r.err, r.w, <<"Uuid::new_v4">> \o r.calls)

\* generate_unique_ico_file_name and encode_to_system(..)?, made when p is Ok
then_encode_to_system(p, self, icon_set, path, env) ==
    IF ~p.ok THEN p
    ELSE After(p, with_new_v4(
                      encode_to_system(p.w, icon_set, path,
                                       generate_unique_ico_file_name(self, env.uuid), env)))

\* set_folder_icon_settings(path, &generated_ico_name)?, made when p is Ok
then_set_folder_icon_settings(p, self, path, env) ==
    IF ~p.ok THEN p
    ELSE After(p, set_folder_icon_settings(p.w, path,
                      generate_unique_ico_file_name(self, env.uuid), env))

\* WindowsFolderSettingsProviderExt::set_icon_for_folder_windows
set_icon_for_folder_windows(self, w, path, icon_set, env) ==
    then_set_folder_icon_settings(
        then_encode_to_system(
            then_remove_existing_generated_ico(validate_folder(self, w, path, env),
                                               self, path, env),
            self, icon_set, path, env),
        self, path, env)

\* FolderSettingsProvider::set_icon_for_folder
set_icon_for_folder(self, w, path, icon_set, env) ==
    LET windows_icon_set == TryFromTable[icon_set] IN
    IF ~windows_icon_set.ok
    THEN Ret(FALSE, windows_icon_set.err, w, <<>>)
    ELSE set_icon_for_folder_windows(self, w, path, windows_icon_set.images, env)

\* clear_folder_icon_settings(&path)?, made when p is Ok
then_clear_folder_icon_settings(p, path, env) ==
    IF ~p.ok THEN p ELSE After(p, clear_folder_icon_settings(p.w, path, env))

\* WindowsFolderSettingsProviderExt::reset_icon_for_folder_windows
reset_icon_for_folder_windows(self, w, path, env) ==
    then_remove_existing_generated_ico(
        then_clear_folder_icon_settings(validate_folder(self, w, path, env), path, env),
        self, path, env)

\* FolderSettingsProvider::reset_icon_for_folder
reset_icon_for_folder(self, w, path, env) == reset_icon_for_folder_windows(self, w, path, env)

-----------------------------------------------------------------------------
(* src/folder_settings/sys/windows/default_folder_icon_provider.rs         *)
(* An entry of the icon-group directory is the identifier of an icon       *)
(* resource; the model keeps with it the width and height of the bitmap    *)
(* that resource holds, which GetObjectW reports.  A fault names the       *)
(* platform call that fails and the entry at which it does (0 for a call   *)
(* made outside the loop).                                                 *)

GrpIconDirEntry(n_id, width, height) == [n_id |-> n_id, bmWidth |-> width, bmHeight |-> height]

NoFault == [call |-> "none", at |-> 0]

\* the platform calls made once per call of the extractor, before and after the loop
OuterCalls ==
    {"LoadLibraryExW", "FindResourceW", "LoadResource", "LockResource",
     "CreateCompatibleDC", "DeleteDC"}

\* the platform calls made for every entry, in order
EntryCalls ==
    <<"FindResourceW", "LoadResource", "LockResource", "SizeofResource",
      "CreateIconFromResourceEx", "GetIconInfo", "GetObjectW", "GetDIBits">>

Fails(fault, call, at) == fault.call = call /\ fault.at = at

\* the handles a call holds: acquired and released so far
NoHandles ==
    [modules_loaded |-> 0, modules_freed |-> 0, dc_created |-> 0, dc_deleted |-> 0,
     icons_created |-> 0, icons_destroyed |-> 0, bitmaps_created |-> 0, bitmaps_deleted |-> 0]

\* load_shell32_dll
load_shell32_dll(fault) ==
    IF Fails(fault, "LoadLibraryExW", 0)
    THEN [ok |-> FALSE, err |-> Win32("LoadLibraryExW")]
    ELSE [ok |-> TRUE, err |-> NoErr]

\* get_icon_directory: id_count entries read after the header
get_icon_directory(directory, fault) ==
    IF \E c \in {"FindResourceW", "LoadResource", "LockResource"} : Fails(fault, c, 0)
    THEN [ok |-> FALSE, err |-> Win32(fault.call), icon_dir |-> <<>>]
    ELSE [ok |-> TRUE, err |-> NoErr, icon_dir |-> [i \in 1..Len(directory) |-> directory[i]]]

\* load_specific_icon for the entry at position at
load_specific_icon(at, fault) ==
    IF \E i \in 1..5 : Fails(fault, EntryCalls[i], at)
    THEN [ok |-> FALSE, err |-> Win32(fault.call)]
    ELSE [ok |-> TRUE, err |-> NoErr]

Out(ok, err, icons, h) == [ok |-> ok, err |-> err, icons |-> icons, handles |-> h]

\* the body of the loop of load_icon_set_from_shell32, for the entries from
\* position at on; icons are the images pushed so far, h the handles held
RECURSIVE load_icons(_, _, _, _, _)
load_icons(icon_directory, at, icons, h, fault) ==
    IF at > Len(icon_directory) THEN Out(TRUE, NoErr, icons, h) ELSE
    LET item == icon_directory[at]
        h_icon == load_specific_icon(at, fault) IN
    IF ~h_icon.ok THEN Out(FALSE, h_icon.err, icons, h) ELSE
    LET h1 == [h EXCEPT !.icons_created = @ + 1] IN
    IF Fails(fault, "GetIconInfo", at) THEN Out(FALSE, Win32("GetIconInfo"), icons, h1) ELSE
    \* GetIconInfo creates the mask and the colour bitmap
    LET h2 == [h1 EXCEPT !.bitmaps_created = @ + 2] IN
    IF Fails(fault, "GetObjectW", at) THEN Out(FALSE, Win32("GetObjectW"), icons, h2) ELSE
    IF Fails(fault, "GetDIBits", at) THEN Out(FALSE, Win32("GetDIBits"), icons, h2) ELSE
    LET size == from_dimension(item.bmWidth) IN
    IF size = NoSize THEN Out(FALSE, ProviderError("Unknown icon size"), icons, h2) ELSE
    load_icons(icon_directory, at + 1,
               Append(icons, WindowsIconImage(size, Image(item.bmWidth, item.bmHeight))),
               h2, fault)

\* what a call of the extractor returns and the handles it leaves
Extracted(ok, err, images, h) == [ok |-> ok, err |-> err, images |-> images, handles |-> h]

\* load_icon_set_from_shell32
load_icon_set_from_shell32(directory, fault) ==
    LET shell32_hmod == load_shell32_dll(fault) IN
    IF ~shell32_hmod.ok THEN Extracted(FALSE, shell32_hmod.err, EmptyImages, NoHandles) ELSE
    LET h0 == [NoHandles EXCEPT !.modules_loaded = 1]
        icon_directory == get_icon_directory(directory, fault) IN
    IF ~icon_directory.ok THEN Extracted(FALSE, icon_directory.err, EmptyImages, h0) ELSE
    IF Fails(fault, "CreateCompatibleDC", 0)
    THEN Extracted(FALSE, Win32("CreateCompatibleDC"), EmptyImages, h0) ELSE
    LET h1 == [h0 EXCEPT !.dc_created = @ + 1]
        loop == load_icons(icon_directory.icon_dir, 1, <<>>, h1, fault) IN
    IF ~loop.ok THEN Extracted(FALSE, loop.err, EmptyImages, loop.handles) ELSE
    IF Fails(fault, "DeleteDC", 0)
    THEN Extracted(FALSE, Win32("DeleteDC"), EmptyImages, loop.handles) ELSE
    LET h2 == [loop.handles EXCEPT !.dc_deleted = @ + 1]
        icon_set == from_icons(loop.icons) IN
    IF ~icon_set.ok THEN Extracted(FALSE, icon_set.err, EmptyImages, h2)
    ELSE Extracted(TRUE, NoErr, icon_set.images, h2)

\* WindowsDefaultFolderIconProviderExt::dump_default_folder_icon_windows
dump_default_folder_icon_windows(directory, fault) == load_icon_set_from_shell32(directory, fault)

-----------------------------------------------------------------------------
(* The inputs of the provider's calls *)

\* an api::IconSet holds every canonical size
ApiComplete(icon_set) ==
    \A s \in WindowsIconSize : \E i \in 1..Len(icon_set) : icon_set[i].width = dimension(s)

\* the file names matching <prefix>-*.ico
IsGenerated(prefix, n) == n.ext = "ico" /\ starts_with(n.stem, prefix \o <<"-">>)

Generated(prefix, w, directory) == {n \in DOMAIN w.files[directory] : IsGenerated(prefix, n)}

\* the files a directory may hold before the first call: two generated files
\* left by earlier calls, an .ico file whose name begins with the characters of
\* the prefix, a file generated by a manager whose prefix begins with them,
\* a file with the prefix and another extension
InitNames(prefix) ==
    {Name(prefix \o <<"-", "s1">>, "ico"),
     Name(prefix \o <<"-", "s2">>, "ico"),
     Name(prefix \o <<"2">>, "ico"),
     Name(prefix \o <<"2", "-", "t1">>, "ico"),
     Name(prefix \o <<"-", "s1">>, "png")}

Range(seq) == {seq[i] : i \in 1..Len(seq)}

\* the first match of read_dir's order may be any of the matching files
FirstChoices ==
    IF is_dir(target) /\ existing_ico_matches(mgr, fs, target) # {}
    THEN existing_ico_matches(mgr, fs, target)
    ELSE {NoName}

\* Uuid::new_v4(): a value not drawn before
new_v4 == "u" \o ToString(uuids + 1)

Env(fault, first) == [fault |-> fault, first |-> first, uuid |-> new_v4]

NoCall == [op |-> "none", fault |-> "none", complete |-> FALSE,
           converts |-> FALSE, ok |-> TRUE, err |-> NoErr, calls |-> <<>>]

\* the two callers of the concurrent calls
Callers == {1, 2}

Other(c) == 3 - c

\* a caller that makes no concurrent call
NotCalled == [pc |-> "none", found |-> NoName, name |-> NoName, ok |-> TRUE, alone |-> TRUE]

NotRunning == [c \in Callers |-> NotCalled]

\* no operation of the icon model made yet
NoCalc == [op |-> "none", input |-> <<>>, ok |-> TRUE, err |-> NoErr,
           images |-> EmptyImages, out |-> <<>>]

NoExtraction == [called |-> FALSE, directory |-> <<>>, fault |-> NoFault, ok |-> TRUE,
                 err |-> NoErr, images |-> EmptyImages, handles |-> NoHandles]

Init ==
    /\ mgr \in {new, new_windows(FALSE, <<CustomPrefix>>)}
    /\ target \in Paths
    /\ \E S \in SUBSET InitNames(mgr.generated_icon_prefix) :
         /\ Cardinality(S) <= MaxInitFiles
         /\ is_dir(target) \/ S = {}
         /\ \E pointer \in {NoName} \cup
                           {n \in S : IsGenerated(mgr.generated_icon_prefix, n)} :
              fs = [files |-> [d \in Dirs |->
                                 IF d = target THEN [n \in S |-> OtherContent]
                                 ELSE [n \in {} |-> OtherContent]],
                    icon_file |-> [d \in Dirs |-> IF d = target THEN pointer ELSE NoName]]
    /\ uuids = 0
    /\ last = NoCall
    /\ clean0 = (is_dir(target) => Generated(mgr.generated_icon_prefix, fs, target) = {})
    /\ all_ok = TRUE
    /\ ext = NoExtraction
    /\ calc = NoCalc
    /\ running = NotRunning

\* the platform call named by the fault was made and failed; an error of
\* FindFolderFromPath for a path that is no known folder is its ordinary result
Reached(fault, calls) ==
    /\ fault \in Range(calls)
    /\ fault = "FindFolderFromPath" => target \in KnownFolders

\* a call of the provider returned r
Returned(op, fault, complete, converts, r) ==
    /\ fs' = r.w
    /\ uuids' = IF "Uuid::new_v4" \in Range(r.calls) THEN uuids + 1 ELSE uuids
    /\ last' = [op |-> op, fault |-> IF Reached(fault, r.calls) THEN fault ELSE "none",
                complete |-> complete, converts |-> converts,
                ok |-> r.ok, err |-> r.err, calls |-> r.calls]
    /\ all_ok' = (all_ok /\ r.ok /\ complete)
    /\ UNCHANGED <<mgr, target, clean0, ext, calc, running>>

SetIconForFolder ==
    /\ uuids < MaxUuids
    /\ \E icon_set \in ApiIconSets :
       LET complete == ApiComplete(icon_set) IN
       \E fault \in Faults, first \in FirstChoices :
            \* no platform call is made when the conversion fails
            /\ TryFromTable[icon_set].ok \/ fault = "none"
            /\ Returned("set_icon_for_folder", fault, complete, TryFromTable[icon_set].ok,
                        set_icon_for_folder(mgr, fs, target, icon_set, Env(fault, first)))

SetIconForFolderWindows ==
    /\ uuids < MaxUuids
    /\ \E icon_set \in WindowsIconSets :
       LET complete == is_complete(icon_set) IN
       \E fault \in Faults, first \in FirstChoices :
            Returned("set_icon_for_folder_windows", fault, complete, TRUE,
                     set_icon_for_folder_windows(mgr, fs, target, icon_set, Env(fault, first)))

ResetIconForFolder ==
    \E fault \in Faults, first \in FirstChoices :
        Returned("reset_icon_for_folder", fault, TRUE, TRUE,
                 reset_icon_for_folder(mgr, fs, target, Env(fault, first)))

Next == SetIconForFolder \/ SetIconForFolderWindows \/ ResetIconForFolder

Spec == Init /\ [][Next]_vars

-----------------------------------------------------------------------------
(* Properties of the folder settings provider *)

SetOps == {"set_icon_for_folder", "set_icon_for_folder_windows"}

ResetOp == "reset_icon_for_folder"

\* known-folder protection applies to the target
Protected == mgr.com_known_folder_manager /\ target \in KnownFolders

\* the files of the target matching <prefix>-*.ico in a state of the folders
Gen(w) == Generated(mgr.generated_icon_prefix, w, target)

\* the last call made a call that changes the filesystem or the shell metadata
Mutated == \E i \in DOMAIN last.calls : last.calls[i] \in MutatingCalls

\* the errors of validate_folder for a path that is missing or no directory
FolderValidationError ==
    IF ~exists(target) THEN IconOperation(<<target>>, "Directory does not exist on filesystem")
    ELSE IconOperation(<<target>>, "Path is not a directory")

ProtectedFolderError == IconOperation(<<target>>, "Folder is a known folder")

\* C1: from an existing, non-protected directory holding no generated file,
\* after any sequence of successful SetIcon (complete set) and ResetIcon calls
\* the directory holds at most one file matching <prefix>-*.ico; right after
\* a SetIcon it holds exactly one and the shell pointer names it.
C1_AtMostOneGenerated ==
    (is_dir(target) /\ ~Protected /\ clean0 /\ all_ok) =>
        /\ Cardinality(Gen(fs)) <= 1
        /\ last.op \in SetOps =>
              (Cardinality(Gen(fs)) = 1 /\ fs.icon_file[target] \in Gen(fs))

\* C2: a successful SetIcon followed by a successful ResetIcon leaves no file
\* matching <prefix>-*.ico and no icon-file pointer.
C2_SetThenReset ==
    [][(is_dir(target) /\ last.op \in SetOps /\ last.ok /\ last'.op = ResetOp /\ last'.ok)
        => (Gen(fs') = {} /\ fs'.icon_file[target] = NoName)]_vars

\* C3: ResetIcon on a valid folder in the Default state (no pointer, no
\* generated file) succeeds when no platform call fails and leaves files and
\* pointer unchanged; a successful ResetIcon after a successful ResetIcon
\* changes nothing.
C3_ResetOnDefault ==
    [][/\ (is_dir(target) /\ ~Protected /\ fs.icon_file[target] = NoName /\ Gen(fs) = {}
           /\ last'.op = ResetOp)
          => ((last'.fault = "none" => last'.ok) /\ (last'.ok => fs' = fs))
       /\ (last.op = ResetOp /\ last.ok /\ last'.op = ResetOp /\ last'.ok) => fs' = fs]_vars

\* C4: with protection enabled, a call on a known folder that reaches the
\* validation fails with ProtectedFolderError before any mutating call.
C4_ProtectedFolder ==
    (Protected /\ last.op # "none" /\ last.converts) =>
        (~last.ok /\ last.err = ProtectedFolderError /\ ~Mutated)

\* C5 as stated: a call on a path that is missing or not a directory fails
\* with FolderValidationError and makes no mutating call.
C5_Stated ==
    (target \in {"file", "missing"} /\ last.op # "none") =>
        (~last.ok /\ last.err = FolderValidationError /\ ~Mutated)

\* C5, amended: such a call fails and makes no mutating call, and no file or
\* pointer exists for the path; its error is FolderValidationError unless
\* set_icon_for_folder was given a set that does not convert, whose
\* conversion error is returned before the folder is looked at.
C5_InvalidFolder ==
    (target \in {"file", "missing"} /\ last.op # "none") =>
        /\ ~last.ok /\ ~Mutated
        /\ \A d \in Dirs : fs.files[d] = <<>> /\ fs.icon_file[d] = NoName
        /\ IF last.op = "set_icon_for_folder" /\ ~last.converts
           THEN last.err.variant \in {"IconError::IconSet", "IconError::IconImage"}
                /\ last.calls = <<>>
           ELSE last.err = FolderValidationError

C5_Witness ==
    /\ target = "file" /\ last.op = "set_icon_for_folder_windows"
    /\ last.err = IconOperation(<<"file">>, "Path is not a directory")
    /\ last.calls = <<"exists", "is_dir">>

\* C6: SetIcon through either entry point with a set missing a canonical
\* size fails, reaches neither the encoder nor any mutating call.
C6_IncompleteSet ==
    (last.op \in SetOps /\ ~last.complete) =>
        /\ ~last.ok /\ ~Mutated
        /\ \A i \in DOMAIN last.calls : last.calls[i] \notin {"IcoFrame::as_png", "encode_images"}

\* C7: a SetIcon that returns an error leaves no new file in the folder and
\* the shell pointer as it was.
C7_NoNewFileOnError ==
    [][(is_dir(target) /\ last'.op \in SetOps /\ ~last'.ok)
        => (DOMAIN fs'.files[target] \subseteq DOMAIN fs.files[target]
            /\ fs'.icon_file = fs.icon_file)]_vars

-----------------------------------------------------------------------------
(* The extractor of the default folder icon, called on the icon-group      *)
(* directories the system module may expose                                *)

\* the widths a bitmap of the module may have: the canonical ones and 30
Widths == {dimension(s) : s \in WindowsIconSize} \cup {30}

\* the directory of a well-formed module: one square icon of every canonical size
CanonicalDirectory == [i \in 1..NUM_SIZES |-> GrpIconDirEntry(i, dimension(all[i]), dimension(all[i]))]

RECURSIVE Tuples(_, _)
Tuples(n, S) ==
    IF n = 0 THEN {<<>>} ELSE {Append(t, x) : t \in Tuples(n - 1, S), x \in S}

\* every directory of at most MaxEntries entries, and the directories that
\* differ from the canonical one in one entry
IconDirectories ==
    UNION {{[i \in 1..n |-> GrpIconDirEntry(i, t[i], t[i])] : t \in Tuples(n, Widths)} : n \in 0..MaxEntries}
    \cup {CanonicalDirectory, RemoveAt(CanonicalDirectory, NUM_SIZES)}
    \cup {ReplaceAt(CanonicalDirectory, i, GrpIconDirEntry(i, 30, 30)) : i \in 1..NUM_SIZES}
    \cup {ReplaceAt(CanonicalDirectory, NUM_SIZES, GrpIconDirEntry(NUM_SIZES, 16, 16)),
          ReplaceAt(CanonicalDirectory, 1, GrpIconDirEntry(1, 16, 32))}

ExtractFaults(directory) ==
    {NoFault} \cup {[call |-> c, at |-> 0] : c \in OuterCalls}
              \cup {[call |-> EntryCalls[c], at |-> i] : c \in DOMAIN EntryCalls, i \in DOMAIN directory}

InitExtract ==
    /\ mgr = new
    /\ target = "dir"
    /\ fs = [files |-> [d \in Dirs |-> [n \in {} |-> OtherContent]],
             icon_file |-> [d \in Dirs |-> NoName]]
    /\ uuids = 0
    /\ last = NoCall
    /\ clean0 = TRUE
    /\ all_ok = TRUE
    /\ ext = NoExtraction
    /\ calc = NoCalc
    /\ running = NotRunning

\* a call of dump_default_folder_icon_windows; the fault is recorded when the
\* platform call it names was made.  The extractor keeps nothing between
\* calls, so a behaviour is one call.
DumpDefaultFolderIcon ==
    /\ ~ext.called
    /\ \E directory \in IconDirectories : \E fault \in ExtractFaults(directory) :
         LET r == dump_default_folder_icon_windows(directory, fault) IN
         ext' = [called |-> TRUE, directory |-> directory,
                 fault |-> IF r.err.variant = "Win32" THEN fault ELSE NoFault,
                 ok |-> r.ok, err |-> r.err, images |-> r.images, handles |-> r.handles]
    /\ UNCHANGED <<mgr, target, fs, uuids, last, clean0, all_ok, calc, running>>

NextExtract == DumpDefaultFolderIcon

SpecExtract == InitExtract /\ [][NextExtract]_vars

-----------------------------------------------------------------------------
(* Properties of the extractor *)

\* the eight canonical dimensions
CanonicalDimensions == {16, 20, 24, 32, 40, 48, 64, 256}

\* the directory holds eight entries of pairwise distinct canonical widths
EightDistinctCanonical(directory) ==
    /\ Len(directory) = NUM_SIZES
    /\ \A i \in DOMAIN directory : directory[i].bmWidth \in CanonicalDimensions
    /\ \A i, j \in DOMAIN directory : i # j => directory[i].bmWidth # directory[j].bmWidth

\* C8: an extraction that returns success returns a complete set, whatever
\* the number of entries of the directory; with eight entries of distinct
\* canonical sizes and no failing platform call it returns success.
C8_ExtractedSetComplete ==
    ext.called =>
        /\ ext.ok => is_complete(ext.images)
        /\ (EightDistinctCanonical(ext.directory) /\ ext.fault = NoFault) => ext.ok

\* C9: when an entry of the directory has a width that is no canonical
\* dimension the extraction fails and returns no set; unless a platform call
\* failed before that width was looked at, the error is the one for an
\* unrecognized dimension.
C9_UnrecognizedDimension ==
    (ext.called /\ \E i \in DOMAIN ext.directory :
                      ext.directory[i].bmWidth \notin CanonicalDimensions) =>
        /\ ~ext.ok
        /\ ext.images = EmptyImages
        /\ ext.fault = NoFault => ext.err = ProviderError("Unknown icon size")

C9_Witness ==
    /\ ext.called /\ Len(ext.directory) = NUM_SIZES
    /\ ext.directory[3].bmWidth = 30
    /\ \A i \in DOMAIN ext.directory : i # 3 => ext.directory[i].bmWidth = dimension(all[i])
    /\ ext.fault = NoFault
    /\ ~ext.ok /\ ext.err = ProviderError("Unknown icon size")

\* C10: when the extractor returns, the rendering context was acquired at
\* most once and every handle acquired (context, icons, bitmaps, module) has
\* been released, unless the release of the context itself failed.
C10_HandlesReleased ==
    (ext.called /\ ext.fault.call # "DeleteDC") =>
        /\ ext.handles.dc_created <= 1
        /\ ext.handles.dc_deleted = ext.handles.dc_created
        /\ ext.handles.icons_destroyed = ext.handles.icons_created
        /\ ext.handles.bitmaps_deleted = ext.handles.bitmaps_created
        /\ ext.handles.modules_freed = ext.handles.modules_loaded

-----------------------------------------------------------------------------
(* The icon model on its own: the catalog, the construction of sets, the   *)
(* conversion from api::IconSet and the frames the encoder is given        *)

\* the images a caller may put in a WindowsIconImage (its fields are public):
\* the square image of each size and two images that do not fit their tag
IconValues ==
    {SquareIcon(s) : s \in WindowsIconSize}
    \cup {WindowsIconImage("Px16", Image(16, 32)), WindowsIconImage("Px20", Image(32, 32))}

Reverse(seq) == [i \in 1..Len(seq) |-> seq[Len(seq) + 1 - i]]

\* the sequences given to from_icons: every sequence of at most MaxIcons
\* images, the eight canonical images in both orders, with one left out, and
\* with the image at one position repeated at another
IconInputs ==
    UNION {Tuples(n, IconValues) : n \in 0..MaxIcons}
    \cup {CanonicalIcons, Reverse(CanonicalIcons), RemoveAt(CanonicalIcons, 1)}
    \cup {ReplaceAt(CanonicalIcons, j, CanonicalIcons[i]) :
             i \in 1..NUM_SIZES, j \in 1..NUM_SIZES}

\* what an operation of the icon model was given and returned
Calc(op, input, ok, err, images, out) ==
    [op |-> op, input |-> input, ok |-> ok, err |-> err, images |-> images, out |-> out]

InitIcons ==
    /\ mgr = new
    /\ target = "dir"
    /\ fs = [files |-> [d \in Dirs |-> [n \in {} |-> OtherContent]],
             icon_file |-> [d \in Dirs |-> NoName]]
    /\ uuids = 0
    /\ last = NoCall
    /\ clean0 = TRUE
    /\ all_ok = TRUE
    /\ ext = NoExtraction
    /\ calc = NoCalc
    /\ running = NotRunning

\* a set in hand: built by from_icons, changed by add_image
HasSet == calc.op \in {"from_icons", "add_image"} /\ calc.ok

\* from_icons returned r
Built(icons, r) == Calc("from_icons", icons, r.ok, r.err, r.images, <<>>)

\* WindowsIconSize::from_dimension(d)
FromDimension ==
    /\ calc.op = "none"
    /\ \E d \in 0..MaxDimension :
         calc' = Calc("from_dimension", d, TRUE, NoErr, EmptyImages, from_dimension(d))
    /\ UNCHANGED <<mgr, target, fs, uuids, last, clean0, all_ok, ext, running>>

\* WindowsIconSet::from_icons(icons)
FromIcons ==
    /\ calc.op = "none"
    /\ \E icons \in IconInputs :
         calc' = Built(icons, from_icons(icons))
    /\ UNCHANGED <<mgr, target, fs, uuids, last, clean0, all_ok, ext, running>>

\* icon_set.add_image(icon)
AddImage ==
    /\ HasSet
    /\ \E icon \in IconValues :
         calc' = Calc("add_image", icon, TRUE, NoErr, add_image(calc.images, icon), <<>>)
    /\ UNCHANGED <<mgr, target, fs, uuids, last, clean0, all_ok, ext, running>>

\* to_ico_frames returned r; the fault is recorded when an as_png call was made
Encoded(fault, images, r) ==
    Calc("to_ico_frames", IF r.calls = <<>> THEN "none" ELSE fault,
         r.ok, NoErr, images, r.frames)

\* to_ico_frames(&icon_set), with or without an as_png call failed by the platform
ToIcoFrames ==
    /\ HasSet
    /\ \E fault \in {"none", "IcoFrame::as_png"} :
         calc' = Encoded(fault, calc.images,
                         to_ico_frames_of(ico_frames_fold(calc.images), calc.images,
                                          [fault |-> fault]))
    /\ UNCHANGED <<mgr, target, fs, uuids, last, clean0, all_ok, ext, running>>

\* the images of an api::IconSet: squares of the canonical widths, a square of
\* no canonical width, a non-square image of a canonical width
ApiImages ==
    {Image(dimension(s), dimension(s)) : s \in WindowsIconSize}
    \cup {Image(30, 30), Image(16, 32)}

\* the api::IconSets converted: every one of at most MaxIcons images, the
\* canonical one in both orders, and the canonical one with one image left
\* out, repeated, of no canonical width, or not square
ApiInputs ==
    UNION {Tuples(n, ApiImages) : n \in 0..MaxIcons}
    \cup {CanonicalImages, Reverse(CanonicalImages), RemoveAt(CanonicalImages, NUM_SIZES),
          ReplaceAt(CanonicalImages, 2, CanonicalImages[1])}
    \cup {ReplaceAt(CanonicalImages, i, Image(30, 30)) : i \in 1..NUM_SIZES}
    \cup {ReplaceAt(CanonicalImages, i, Image(dimension(all[i]), 32)) : i \in 1..NUM_SIZES}

\* the conversion returned r
Converted(icon_set, r) == Calc("try_from", icon_set, r.ok, r.err, r.images, <<>>)

\* WindowsIconSet::try_from(&api::IconSet)
TryFrom ==
    /\ calc.op = "none"
    /\ \E icon_set \in ApiInputs : calc' = Converted(icon_set, icon_set_try_from(icon_set))
    /\ UNCHANGED <<mgr, target, fs, uuids, last, clean0, all_ok, ext, running>>

\* the 4-byte pixels GetDIBits may return, in the device's order b, g, r, a
PixelValues == Tuples(4, {0, 255}) \cup {<<0, 85, 170, 255>>, <<1, 2, 3, 4>>}

RECURSIVE Concat(_)
Concat(seqs) == IF seqs = <<>> THEN <<>> ELSE Head(seqs) \o Concat(Tail(seqs))

\* the buffers of bmWidth * bmHeight * 4 bytes the bitmap query fills
PixelBuffers == UNION {{Concat(t) : t \in Tuples(n, PixelValues)} : n \in 0..MaxPixels}

\* a channel swap that stops after the first pixel
swap_channels_first_pixel(pixels) ==
    [i \in 1..Len(pixels) |->
        IF i = 1 /\ Len(pixels) >= 4 THEN pixels[3]
        ELSE IF i = 3 /\ Len(pixels) >= 4 THEN pixels[1]
        ELSE pixels[i]]

\* load_icon_set_from_shell32: for chunk in pixels.chunks_exact_mut(4), bytes
\* 0 and 2 of the chunk are exchanged; a remainder shorter than 4 is left alone
swap_channels(pixels) ==
    [i \in 1..Len(pixels) |->
        IF i > 4 * (Len(pixels) \div 4) THEN pixels[i]
        ELSE IF (i - 1) % 4 = 0 THEN pixels[i + 2]
        ELSE IF (i - 1) % 4 = 2 THEN pixels[i - 2]
        ELSE pixels[i]]

\* the extractor reorders the buffer GetDIBits filled
SwapChannels ==
    /\ calc.op = "none"
    /\ \E pixels \in PixelBuffers :
         calc' = Calc("swap_channels", pixels, TRUE, NoErr, EmptyImages, swap_channels(pixels))
    /\ UNCHANGED <<mgr, target, fs, uuids, last, clean0, all_ok, ext, running>>

NextIcons == FromDimension \/ FromIcons \/ AddImage \/ ToIcoFrames \/ TryFrom \/ SwapChannels

SpecIcons == InitIcons /\ [][NextIcons]_vars

-----------------------------------------------------------------------------
(* Properties of the icon model *)

\* the canonical dimensions in ascending order
AscendingDimensions == <<16, 20, 24, 32, 40, 48, 64, 256>>

\* every image of the set is the square of its tag's dimension
WellFormed(images) ==
    \A s \in DOMAIN images :
        images[s].image.width = dimension(s) /\ images[s].image.height = dimension(s)

\* C11: for a complete set the frames the encoder is given, when to_ico_frames
\* returns them, are exactly eight, in ascending order of dimension, each
\* declared with the width and height of its size; it returns them when every
\* image is the square of its size and no as_png call fails.
C11_EncoderFrames ==
    (calc.op = "to_ico_frames" /\ is_complete(calc.images)) =>
        /\ calc.ok =>
              /\ Len(calc.out) = 8
              /\ \A i \in 1..8 : calc.out[i] = Image(AscendingDimensions[i], AscendingDimensions[i])
        /\ (WellFormed(calc.images) /\ calc.input = "none") => calc.ok

C11_Witness ==
    /\ calc.op = "to_ico_frames" /\ is_complete(calc.images) /\ calc.ok
    /\ Len(calc.out) = 8 /\ calc.out[1].width = 16 /\ calc.out[8].width = 256

\* two images of the sequence carry the same size tag
HasDuplicate(icons) ==
    \E i, j \in DOMAIN icons : i # j /\ icons[i].size = icons[j].size

\* C12: from_icons over a sequence in which two images carry the same tag
\* returns the duplicate-size error and no set, wherever the two are; over a
\* sequence of pairwise distinct tags it returns the set of exactly those
\* sizes, each with its image.
C12_FromIcons ==
    calc.op = "from_icons" =>
        IF HasDuplicate(calc.input)
        THEN ~calc.ok /\ calc.err = IconErrorIconSet("Duplicate icon size")
             /\ calc.images = EmptyImages
        ELSE /\ calc.ok
             /\ DOMAIN calc.images = {calc.input[i].size : i \in DOMAIN calc.input}
             /\ \A i \in DOMAIN calc.input : calc.images[calc.input[i].size] = calc.input[i]

C12_Witness ==
    /\ calc.op = "from_icons" /\ Len(calc.input) = 8
    /\ calc.input[8].size = calc.input[1].size
    /\ ~calc.ok /\ calc.err = IconErrorIconSet("Duplicate icon size")

\* C13: for a set built by from_icons and changed by add_image calls,
\* missing_sizes is the canonical sizes absent from the set in ascending
\* order of dimension, and is_complete holds exactly when it is empty; a set
\* holding all eight sizes is complete.
C13_MissingSizes ==
    HasSet =>
        /\ \A s \in WindowsIconSize :
              (\E i \in DOMAIN missing_sizes(calc.images) : missing_sizes(calc.images)[i] = s)
              <=> s \notin DOMAIN calc.images
        /\ \A i, j \in DOMAIN missing_sizes(calc.images) :
              i < j => dimension(missing_sizes(calc.images)[i])
                         < dimension(missing_sizes(calc.images)[j])
        /\ is_complete(calc.images) <=> missing_sizes(calc.images) = <<>>
        /\ DOMAIN calc.images = WindowsIconSize => is_complete(calc.images)

C13_Witness ==
    /\ calc.op = "add_image"
    /\ missing_sizes(calc.images) = <<"Px20", "Px256">>
    /\ ~is_complete(calc.images)

\* C14: from_dimension of a canonical dimension is the tag of that dimension,
\* from_dimension of any other integer is none, and from_dimension of the
\* dimension of a tag is the tag.
C14_FromDimension ==
    /\ calc.op = "from_dimension" =>
          IF calc.input \in {16, 20, 24, 32, 40, 48, 64, 256}
          THEN calc.out \in WindowsIconSize /\ dimension(calc.out) = calc.input
          ELSE calc.out = NoSize
    /\ \A s \in WindowsIconSize : from_dimension(dimension(s)) = s

C14_Witness ==
    /\ calc.op = "from_dimension" /\ calc.input = 40 /\ calc.out = "Px40"

\* C16: the buffer the extractor hands on has the length of the queried buffer
\* and, for every 4-byte pixel queried as (b, g, r, a), holds (r, g, b, a):
\* bytes 0 and 2 of the pixel are exchanged, bytes 1 and 3 are unchanged.
C16_ChannelsSwapped ==
    calc.op = "swap_channels" =>
        /\ Len(calc.out) = Len(calc.input)
        /\ \A k \in 0..((Len(calc.input) \div 4) - 1) :
              /\ calc.out[4 * k + 1] = calc.input[4 * k + 3]
              /\ calc.out[4 * k + 2] = calc.input[4 * k + 2]
              /\ calc.out[4 * k + 3] = calc.input[4 * k + 1]
              /\ calc.out[4 * k + 4] = calc.input[4 * k + 4]

C16_Witness ==
    /\ calc.op = "swap_channels"
    /\ calc.input = <<0, 85, 170, 255, 1, 2, 3, 4>>
    /\ calc.out = <<170, 85, 0, 255, 3, 2, 1, 4>>

\* the images of a platform-agnostic set that are not squares of a canonical side
Irregular(icon_set) ==
    {i \in DOMAIN icon_set :
        icon_set[i].width # icon_set[i].height
        \/ icon_set[i].width \notin {16, 20, 24, 32, 40, 48, 64, 256}}

\* C17: every image of a set converted from a platform-agnostic icon set has
\* width and height equal to the dimension of its tag, and an input image that
\* is not square or whose side is no canonical dimension fails the conversion.
C17_ConvertedImagesSquare ==
    calc.op = "try_from" =>
        /\ calc.ok => WellFormed(calc.images)
        /\ Irregular(calc.input) # {} => ~calc.ok

-----------------------------------------------------------------------------
(* Further properties of the provider *)

\* the last call is a SetIcon that failed at a platform call after validation
FailedPastValidation ==
    /\ last.op \in SetOps /\ ~last.ok
    /\ last.fault \in Faults \ {"none", "FindFolderFromPath"}

\* C15: an error of SetIcon from a failure of stale-file removal, of encoding
\* and writing the container, of marking it hidden and system or of writing
\* the shell pointer carries a path that begins with the target folder.
C15_ErrorCarriesFolder ==
    FailedPastValidation => (last.err.path # <<>> /\ last.err.path[1] = target)

\* C18: in an existing directory, whatever number of generated files it held,
\* a successful SetIcon leaves exactly one file matching the prefix and a
\* successful ResetIcon leaves none.
C18_StaleFilesRemoved ==
    [][(is_dir(target) /\ last'.ok)
        => /\ last'.op \in SetOps => Cardinality(Gen(fs')) = 1
           /\ last'.op = ResetOp => Gen(fs') = {}]_vars

\* C19: a call deletes only files named <prefix>-<token>.ico for the
\* manager's prefix, and every other file of the folder is unchanged by it.
C19_OnlyGeneratedDeleted ==
    [][\A n \in DOMAIN fs.files[target] :
          ~IsGenerated(mgr.generated_icon_prefix, n)
          => (n \in DOMAIN fs'.files[target]
              /\ fs'.files[target][n] = fs.files[target][n])]_vars

-----------------------------------------------------------------------------
(* Two calls of set_icon_for_folder_windows on the same folder, made by two
   callers at once. The provider takes no lock: each platform call of
   set_icon_for_folder_windows is a step of its own, and the steps of the two
   calls interleave freely. A step that names a file the other call removed
   fails as the platform call does. *)

\* the complete set both callers pass
CompleteSet == from_icons(CanonicalIcons).images

InitConcurrent ==
    /\ mgr \in {new, new_windows(FALSE, <<CustomPrefix>>)}
    /\ target \in Paths
    /\ \E S \in SUBSET InitNames(mgr.generated_icon_prefix) :
         /\ Cardinality(S) <= MaxInitFiles
         /\ is_dir(target) \/ S = {}
         /\ \E pointer \in {NoName} \cup
                           {n \in S : IsGenerated(mgr.generated_icon_prefix, n)} :
              fs = [files |-> [d \in Dirs |->
                                 IF d = target THEN [n \in S |-> OtherContent]
                                 ELSE [n \in {} |-> OtherContent]],
                    icon_file |-> [d \in Dirs |-> IF d = target THEN pointer ELSE NoName]]
    /\ uuids = 0
    /\ last = NoCall
    /\ clean0 = (is_dir(target) => Generated(mgr.generated_icon_prefix, fs, target) = {})
    /\ all_ok = TRUE
    /\ ext = NoExtraction
    /\ calc = NoCalc
    /\ running = [c \in Callers |-> [NotCalled EXCEPT !.pc = "validate_folder"]]

\* caller c moves on; alone records that the other call had not begun or had
\* returned at every step of c so far
Moved(c, pc, found, name, ok) ==
    running' = [running EXCEPT ![c] =
                  [pc |-> pc, found |-> found, name |-> name, ok |-> ok,
                   alone |-> running[c].alone
                             /\ running[Other(c)].pc \in {"validate_folder", "returned"}]]

\* a step of c returned r: `?` returns from the call on an error
Stepped(c, r, pc, found, name) ==
    /\ fs' = r.w
    /\ Moved(c, IF r.ok THEN pc ELSE "returned", found, name, r.ok)

\* the platform call on a file fails when the file is gone
FaultIfGone(n, call) ==
    [fault |-> IF n \in DOMAIN fs.files[target] THEN "none" ELSE call,
     first |-> NoName, uuid |-> new_v4]

\* self.validate_folder(&path)?
ValidateFolder(c) ==
    /\ running[c].pc = "validate_folder"
    /\ Stepped(c, validate_folder(mgr, fs, target, Env("none", NoName)),
               "find_existing_ico", NoName, NoName)
    /\ UNCHANGED <<mgr, target, uuids, last, clean0, all_ok, ext, calc>>

\* find_existing_ico returned existing_ico_file
FoundExisting(c, existing_ico_file) ==
    Moved(c, IF existing_ico_file.found = NoName THEN "encode_and_write_ico" ELSE "remove_file",
          existing_ico_file.found, NoName, TRUE)

\* remove_existing_generated_ico: self.find_existing_ico(directory)?
FindExistingIco(c) ==
    /\ running[c].pc = "find_existing_ico"
    /\ \E first \in FirstChoices :
         FoundExisting(c, find_existing_ico(mgr, fs, target, Env("none", first)))
    /\ UNCHANGED <<mgr, target, fs, uuids, last, clean0, all_ok, ext, calc>>

\* remove_existing_generated_ico: std::fs::remove_file(existing_ico_file)?
RemoveFile(c) ==
    /\ running[c].pc = "remove_file"
    /\ Stepped(c, remove_if_some(fs, target,
                                 [ok |-> TRUE, err |-> "", found |-> running[c].found,
                                  calls |-> <<>>],
                                 FaultIfGone(running[c].found, "remove_file")),
               "encode_and_write_ico", running[c].found, NoName)
    /\ UNCHANGED <<mgr, target, uuids, last, clean0, all_ok, ext, calc>>

\* the new file of c is written under the name n
Written(c, n) ==
    Stepped(c, then_encode_and_write_ico(
                   ico_frames_or_err(fs, to_ico_frames(CompleteSet, Env("none", NoName)),
                                     target, n),
                   CompleteSet, target, n, Env("none", NoName)),
            "set_hidden_system", running[c].found, n)

\* generate_unique_ico_file_name, to_ico_frames and encode_and_write_ico
EncodeAndWriteIco(c) ==
    /\ running[c].pc = "encode_and_write_ico"
    /\ uuids < MaxUuids
    /\ Written(c, generate_unique_ico_file_name(mgr, new_v4))
    /\ uuids' = uuids + 1
    /\ UNCHANGED <<mgr, target, last, clean0, all_ok, ext, calc>>

\* encode_to_system: GetFileAttributesW and SetFileAttributesW of the new file
SetHiddenSystem(c) ==
    /\ running[c].pc = "set_hidden_system"
    /\ Stepped(c, set_hidden_system(fs, target, running[c].name,
                                    FaultIfGone(running[c].name, "GetFileAttributesW")),
               "set_folder_icon_settings", running[c].found, running[c].name)
    /\ UNCHANGED <<mgr, target, uuids, last, clean0, all_ok, ext, calc>>

\* set_folder_icon_settings(path, &generated_ico_name)? and Ok(())
SetFolderIconSettings(c) ==
    /\ running[c].pc = "set_folder_icon_settings"
    /\ Stepped(c, set_folder_icon_settings(fs, target, running[c].name, Env("none", NoName)),
               "returned", running[c].found, running[c].name)
    /\ UNCHANGED <<mgr, target, uuids, last, clean0, all_ok, ext, calc>>

NextConcurrent ==
    \/ \E c \in Callers : ValidateFolder(c)
    \/ \E c \in Callers : FindExistingIco(c)
    \/ \E c \in Callers : RemoveFile(c)
    \/ \E c \in Callers : EncodeAndWriteIco(c)
    \/ \E c \in Callers : SetHiddenSystem(c)
    \/ \E c \in Callers : SetFolderIconSettings(c)

SpecConcurrent == InitConcurrent /\ [][NextConcurrent]_vars

\* both concurrent calls returned Ok
BothReturnedOk ==
    \A c \in Callers : running[c].pc = "returned" /\ running[c].ok

\* the calls did not overlap: each made its steps with the other not begun or returned
Serialised == \A c \in Callers : running[c].alone

\* the statement of C20 as the specification gives it: when both concurrent
\* calls returned success the shell pointer names a generated file that
\* exists in the folder.
C20_Stated ==
    BothReturnedOk => fs.icon_file[target] \in Gen(fs)

\* C20: when two concurrent SetIcon calls on the same folder both returned
\* success, the shell pointer names the file one of the two calls generated;
\* that file exists in the folder when the two calls did not overlap.
C20_PointerOfOneCall ==
    BothReturnedOk =>
        /\ \E c \in Callers : fs.icon_file[target] = running[c].name
        /\ IsGenerated(mgr.generated_icon_prefix, fs.icon_file[target])
        /\ Serialised => fs.icon_file[target] \in Gen(fs)

C20_Witness ==
    /\ BothReturnedOk /\ ~Serialised
    /\ fs.icon_file[target] = running[1].name
    /\ running[2].found = running[1].name

====
